---- MODULE Spec2Model ----
(***************************************************************************)
(* Kleisli iterator composition (src/src/lib.rs).                          *)
(*                                                                         *)
(* KleisliCompose pairs two FnMut arrows f : A -> U and g : U::Item -> S.  *)
(* ApplyKleisliCompose stores an input a and the pair; its Iterator::next  *)
(* evaluates  (self.k.f)(self.a).into_iter().flat_map(g).next()  afresh on *)
(* every call.                                                             *)
(***************************************************************************)
EXTENDS Integers, Sequences, FiniteSets, TLC

\* ------------------------------------------------------------------ bounds
MaxLen == 2        \* longest sequence an arrow returns
MaxPulls == 3      \* calls of next() on one ApplyKleisliCompose
MaxSpin == 2       \* flat_map iterations followed over an applied composition

\* ------------------------------------------------------------ value domains
\* Elements of the argument type A and of the item types U::Item, S::Item.
Val == {1, 2}

\* What one invocation of an arrow gives: a finite sequence (ok) or a panic
\* carrying the arrow's own payload err.
SeqsUpTo(n) == UNION {[1..m -> Val] : m \in 0..n}
Ok(s) == [ok |-> TRUE, err |-> "", seq |-> s]
Fail(e) == [ok |-> FALSE, err |-> e, seq |-> <<>>]
FErr == "panic in f"
GErr == "panic in g"
HErr == "panic in h"
Outcomes(e) == {Ok(s) : s \in SeqsUpTo(MaxLen)} \cup {Fail(e)}

\* An FnMut arrow: a table from argument to outcome, whether the closure's
\* outcome depends on the state it captures, and that state: the number of
\* calls made so far.  A "counting" closure drops that many leading elements
\* (a captured cursor that is not restarted between calls).
Arrows(e) == [kind : {"pure", "counting"}, tab : [Val -> Outcomes(e)], calls : {0}]
PureArrows(e) == {ar \in Arrows(e) : ar.kind = "pure"}
NoArrow == [kind |-> "pure", tab |-> [x \in Val |-> Ok(<<>>)], calls |-> 0]

Drop(s, n) == SubSeq(s, n + 1, Len(s))

\* The outcome of the call ar(x).
Invoke(ar, x) ==
    LET r == ar.tab[x] IN
    IF ar.kind = "counting" /\ r.ok THEN Ok(Drop(r.seq, ar.calls)) ELSE r

\* The closure after a call: its captured state has been mutated once more.
Called(ar) == [ar EXCEPT !.calls = @ + 1]

\* Option<Item> as seen by the caller of next(); Panic is an unwinding call,
\* NoReturn a call that never comes back, NotPulled no call yet.
Some(v) == [tag |-> "Some", v |-> v, err |-> ""]
None == [tag |-> "None", v |-> 0, err |-> ""]
Panic(e) == [tag |-> "Panic", v |-> 0, err |-> e]
NoReturn == [tag |-> "NoReturn", v |-> 0, err |-> ""]
NotPulled == [tag |-> "NotPulled", v |-> 0, err |-> ""]

VARIABLES
    pc,     \* "arrows" | "composed" | "applied" : what has been constructed
    f, g,   \* the two closures (moved into KleisliCompose by new)
    h,      \* a third closure, used by the nested compositions
    a,      \* ApplyKleisliCompose.a (the caller's input before construction)
    log,    \* one record per call of next(), oldest first
    left,   \* first pull on apply(compose(compose(f,g),h), a)
    right   \* first pull on apply(compose(f,compose(g,h)), a)

vars == <<pc, f, g, h, a, log, left, right>>

\* ------------------------------------------------- the nested loop, eagerly
\* g called on every element of bs in order, the results concatenated.
RECURSIVE ConcatMap(_, _)
ConcatMap(gc, bs) ==
    IF bs = <<>> THEN Ok(<<>>)
    ELSE LET r == Invoke(gc, Head(bs))
             rest == ConcatMap(Called(gc), Tail(bs))
         IN  IF r.ok /\ rest.ok THEN Ok(r.seq \o rest.seq)
             ELSE IF ~r.ok THEN r ELSE rest

\* for b in fc(x) { for c in gc(b) { yield c } }
Flattened(x, fc, gc) ==
    LET r == Invoke(fc, x) IN
    IF r.ok THEN ConcatMap(gc, r.seq) ELSE r

\* The closure as it was constructed, before any call.
Fresh(ar) == [ar EXCEPT !.calls = 0]

\* --------------------------------------------------------------- the code
NoTrace == [gArgs |-> <<>>, gOuts |-> <<>>, fReq |-> 0, gReq |-> 0]

\* (mutant) the failure of g is swallowed and the loop goes on
RECURSIVE FlatMapNext_swallow(_, _, _, _)
FlatMapNext_swallow(gc, bs, i, tr) ==
    IF i > Len(bs)
    THEN [g |-> gc, item |-> None, gArgs |-> tr.gArgs, gOuts |-> tr.gOuts,
          fReq |-> tr.fReq + 1, gReq |-> tr.gReq]
    ELSE LET r == Invoke(gc, bs[i])
             t == [gArgs |-> Append(tr.gArgs, bs[i]),
                   gOuts |-> Append(tr.gOuts, r),
                   fReq |-> tr.fReq + 1,
                   gReq |-> tr.gReq + 1]
         IN  IF r.seq # <<>>
             THEN [g |-> Called(gc), item |-> Some(Head(r.seq)),
                   gArgs |-> t.gArgs, gOuts |-> t.gOuts, fReq |-> t.fReq,
                   gReq |-> t.gReq]
             ELSE FlatMapNext_swallow(Called(gc), bs, i + 1, t)

\* (mutant) the loop takes the last element of g(b), not the first
RECURSIVE FlatMapNext_last(_, _, _, _)
FlatMapNext_last(gc, bs, i, tr) ==
    IF i > Len(bs)
    THEN [g |-> gc, item |-> None, gArgs |-> tr.gArgs, gOuts |-> tr.gOuts,
          fReq |-> tr.fReq + 1, gReq |-> tr.gReq]
    ELSE LET r == Invoke(gc, bs[i])
             t == [gArgs |-> Append(tr.gArgs, bs[i]),
                   gOuts |-> Append(tr.gOuts, r),
                   fReq |-> tr.fReq + 1,
                   gReq |-> IF r.ok THEN tr.gReq + 1 ELSE tr.gReq]
         IN  IF ~r.ok
             THEN [g |-> Called(gc), item |-> Panic(r.err), gArgs |-> t.gArgs,
                   gOuts |-> t.gOuts, fReq |-> t.fReq, gReq |-> t.gReq]
             ELSE IF r.seq # <<>>
             THEN [g |-> Called(gc), item |-> Some(r.seq[Len(r.seq)]),
                   gArgs |-> t.gArgs, gOuts |-> t.gOuts, fReq |-> t.fReq,
                   gReq |-> t.gReq]
             ELSE FlatMapNext_last(Called(gc), bs, i + 1, t)

\* FlatMap::next over the sequence bs that f returned, from its i-th element:
\* request the next b, call g(b), request the first element of g(b); return
\* it if there is one, otherwise go on with the next b.  gArgs/gOuts record
\* the calls of g, fReq the elements requested from f's sequence, gReq the
\* elements requested from the sequences g returned.
RECURSIVE FlatMapNext(_, _, _, _)
FlatMapNext(gc, bs, i, tr) ==
    IF i > Len(bs)
    THEN [g |-> gc, item |-> None, gArgs |-> tr.gArgs, gOuts |-> tr.gOuts,
          fReq |-> tr.fReq + 1, gReq |-> tr.gReq]
    ELSE LET r == Invoke(gc, bs[i])
             t == [gArgs |-> Append(tr.gArgs, bs[i]),
                   gOuts |-> Append(tr.gOuts, r),
                   fReq |-> tr.fReq + 1,
                   gReq |-> IF r.ok THEN tr.gReq + 1 ELSE tr.gReq]
         IN  IF ~r.ok
             THEN [g |-> Called(gc), item |-> Panic(r.err), gArgs |-> t.gArgs,
                   gOuts |-> t.gOuts, fReq |-> t.fReq, gReq |-> t.gReq]
             ELSE IF r.seq # <<>>
             THEN [g |-> Called(gc), item |-> Some(Head(r.seq)),
                   gArgs |-> t.gArgs, gOuts |-> t.gOuts, fReq |-> t.fReq,
                   gReq |-> t.gReq]
             ELSE FlatMapNext(Called(gc), bs, i + 1, t)

\* The argument next() passes to f.
FArg(x) == x

\* (used by the mutant next_eager) all g(b) for b in bs, called in order, as
\* the calls and their outcomes.
RECURSIVE MapAll(_, _, _)
MapAll(gc, bs, tr) ==
    IF bs = <<>> THEN [g |-> gc, gArgs |-> tr.gArgs, gOuts |-> tr.gOuts]
    ELSE MapAll(Called(gc), Tail(bs),
                [gArgs |-> Append(tr.gArgs, Head(bs)),
                 gOuts |-> Append(tr.gOuts, Invoke(gc, Head(bs)))])

\* (mutant) every g(b) is computed and collected before the first element is
\* taken: f(a).into_iter().map(g).collect::<Vec<_>>().into_iter().flatten()
next_eager(x, fc, gc) ==
    LET r == Invoke(fc, FArg(x)) IN
    IF ~r.ok
    THEN [f |-> Called(fc), g |-> gc, item |-> Panic(r.err),
          fArgs |-> <<FArg(x)>>, fOut |-> r,
          gArgs |-> <<>>, gOuts |-> <<>>, fReq |-> 0, gReq |-> 0]
    ELSE LET m == MapAll(gc, r.seq, NoTrace)
             c == ConcatMap(gc, r.seq)
         IN  [f |-> Called(fc), g |-> m.g,
              item |-> IF ~c.ok THEN Panic(c.err)
                       ELSE IF c.seq = <<>> THEN None ELSE Some(Head(c.seq)),
              fArgs |-> <<FArg(x)>>, fOut |-> r,
              gArgs |-> m.gArgs, gOuts |-> m.gOuts,
              fReq |-> Len(r.seq) + 1, gReq |-> Len(m.gArgs)]

\* (mutant) the sequence f returned is kept by the instance and advanced: the
\* n-th call of next() returns the n-th element of the nested loop
next_cursor(x, fc, gc) ==
    LET r == Invoke(Fresh(fc), FArg(x))
        c == Flattened(FArg(x), Fresh(fc), Fresh(gc))
        n == fc.calls + 1
    IN  [f |-> Called(fc), g |-> gc,
         item |-> IF ~c.ok THEN Panic(c.err)
                  ELSE IF n > Len(c.seq) THEN None ELSE Some(c.seq[n]),
         fArgs |-> <<FArg(x)>>, fOut |-> r,
         gArgs |-> <<>>, gOuts |-> <<>>, fReq |-> 0, gReq |-> 0]

\* (mutant) f is called by the first next() only and its sequence reused
next_cached(x, fc, gc) ==
    LET r == Invoke(Fresh(fc), FArg(x))
        m == FlatMapNext(gc, r.seq, 1, NoTrace)
        first == gc.calls = 0 /\ fc.calls = 0
    IN  [f |-> IF first THEN Called(fc) ELSE fc, g |-> m.g,
         item |-> IF r.ok THEN m.item ELSE Panic(r.err),
         fArgs |-> IF first THEN <<FArg(x)>> ELSE <<>>, fOut |-> r,
         gArgs |-> m.gArgs, gOuts |-> m.gOuts, fReq |-> m.fReq,
         gReq |-> m.gReq]

\* (mutant) an empty result is unwrapped
next_unwrap(x, fc, gc) ==
    LET r == Invoke(fc, FArg(x))
        m == FlatMapNext(gc, r.seq, 1, NoTrace)
    IN  [f |-> Called(fc), g |-> m.g,
         item |-> IF ~r.ok THEN Panic(r.err)
                  ELSE IF m.item = None THEN Panic("unwrap on None")
                  ELSE m.item,
         fArgs |-> <<FArg(x)>>, fOut |-> r,
         gArgs |-> m.gArgs, gOuts |-> m.gOuts, fReq |-> m.fReq,
         gReq |-> m.gReq]

\* ApplyKleisliCompose::next on the instance holding input x and closures
\* fc, gc: the closures afterwards, the item returned and the calls made.
next(x, fc, gc) ==
    LET r == Invoke(fc, FArg(x)) IN
    IF ~r.ok
    THEN [f |-> Called(fc), g |-> gc, item |-> Panic(r.err),
          fArgs |-> <<FArg(x)>>, fOut |-> r,
          gArgs |-> <<>>, gOuts |-> <<>>, fReq |-> 0, gReq |-> 0]
    ELSE LET m == FlatMapNext(gc, r.seq, 1, NoTrace) IN
         [f |-> Called(fc), g |-> m.g, item |-> m.item,
          fArgs |-> <<FArg(x)>>, fOut |-> r,
          gArgs |-> m.gArgs, gOuts |-> m.gOuts, fReq |-> m.fReq,
          gReq |-> m.gReq]

\* KleisliCompose::new: stores f and g.
KleisliCompose_new ==
    /\ pc = "arrows"
    /\ pc' = "composed"
    /\ UNCHANGED <<f, g, h, a, log, left, right>>

\* kleisli_compose(f, g) is KleisliCompose::new(f, g).
kleisli_compose == KleisliCompose_new

\* (mutant) the constructor evaluates f(a) ahead of the first pull
ApplyKleisliCompose_new_eager ==
    /\ pc = "composed"
    /\ pc' = "applied"
    /\ f' = Called(f)
    /\ UNCHANGED <<g, h, a, log, left, right>>

\* ApplyKleisliCompose::new(a, kc): stores the input and the pair.
ApplyKleisliCompose_new ==
    /\ pc = "composed"
    /\ pc' = "applied"
    /\ UNCHANGED <<f, g, h, a, log, left, right>>

\* One call of Iterator::next by the consumer.
Pull ==
    /\ pc = "applied"
    /\ Len(log) < MaxPulls
    /\ LET n == next(a, f, g) IN
       /\ f' = n.f
       /\ g' = n.g
       /\ log' = Append(log, [item |-> n.item, fArgs |-> n.fArgs, fOut |-> n.fOut,
                              gArgs |-> n.gArgs, gOuts |-> n.gOuts,
                              fReq |-> n.fReq, gReq |-> n.gReq])
    /\ UNCHANGED <<pc, h, a, left, right>>

\* The caller's closures and input.  f is only ever called on the input the
\* caller applies the composition to, so its table is left empty elsewhere.
Init ==
    /\ pc = "arrows"
    /\ a \in Val
    /\ f \in {ar \in Arrows(FErr) : \A x \in Val \ {a} : ar.tab[x] = Ok(<<>>)}
    /\ g \in Arrows(GErr)
    /\ h = NoArrow
    /\ log = <<>>
    /\ left = NotPulled
    /\ right = NotPulled

Next ==
    \/ kleisli_compose
    \/ ApplyKleisliCompose_new
    \/ Pull

Spec == Init /\ [][Next]_vars

\* ------------------------------------------------- nested compositions
\* A composed arrow used as an arrow is  |x| ApplyKleisliCompose::new(x, kc):
\* the sequence it returns is an applied composition, whose elements are
\* obtained by calling its next().  The arrows here are pure closures.

\* next() on apply(compose(compose(f,g),h), x): flat_map requests an element
\* of apply(compose(f,g), x), calls h on it and requests the first element of
\* the result; when that is empty it requests the next element of
\* apply(compose(f,g), x).  With pure closures every request gives the same
\* element, so a loop that has not returned after spin more rounds never does.
RECURSIVE LeftNext(_, _, _, _, _)
LeftNext(x, fc, gc, hc, spin) ==
    IF spin = 0 THEN NoReturn
    ELSE LET n == next(x, fc, gc) IN
         IF n.item.tag # "Some" THEN n.item
         ELSE LET r == Invoke(hc, n.item.v) IN
              IF ~r.ok THEN Panic(r.err)
              ELSE IF r.seq # <<>> THEN Some(Head(r.seq))
              ELSE LeftNext(x, n.f, n.g, Called(hc), spin - 1)

\* flat_map over the sequence bs that f returned, from its i-th element, each
\* b mapped to apply(compose(g,h), b), of which the first element is requested.
RECURSIVE RightFlatMapNext(_, _, _, _)
RightFlatMapNext(gc, hc, bs, i) ==
    IF i > Len(bs) THEN None
    ELSE LET n == next(bs[i], gc, hc) IN
         IF n.item.tag # "None" THEN n.item
         ELSE RightFlatMapNext(n.f, n.g, bs, i + 1)

\* next() on apply(compose(f,compose(g,h)), x).
RightNext(x, fc, gc, hc) ==
    LET r == Invoke(fc, FArg(x)) IN
    IF ~r.ok THEN Panic(r.err) ELSE RightFlatMapNext(gc, hc, r.seq, 1)

\* kleisli_compose(kleisli_compose(f, g), h) and
\* kleisli_compose(f, kleisli_compose(g, h)), on clones of the closures.
ComposeNested ==
    /\ pc = "arrows"
    /\ pc' = "composed"
    /\ UNCHANGED <<f, g, h, a, log, left, right>>

\* ApplyKleisliCompose::new(a, _) on both nested compositions.
ApplyNested ==
    /\ pc = "composed"
    /\ pc' = "applied"
    /\ UNCHANGED <<f, g, h, a, log, left, right>>

\* The first pull on the left-nested composition.
PullLeft ==
    /\ pc = "applied"
    /\ left = NotPulled
    /\ left' = LeftNext(a, f, g, h, MaxSpin)
    /\ UNCHANGED <<pc, f, g, h, a, log, right>>

\* The first pull on the right-nested composition.
PullRight ==
    /\ pc = "applied"
    /\ right = NotPulled
    /\ right' = RightNext(a, f, g, h)
    /\ UNCHANGED <<pc, f, g, h, a, log, left>>

InitAssoc ==
    /\ pc = "arrows"
    /\ a \in Val
    /\ f \in {ar \in PureArrows(FErr) : \A x \in Val \ {a} : ar.tab[x] = Ok(<<>>)}
    /\ g \in PureArrows(GErr)
    /\ h \in PureArrows(HErr)
    /\ log = <<>>
    /\ left = NotPulled
    /\ right = NotPulled

NextAssoc ==
    \/ ComposeNested
    \/ ApplyNested
    \/ PullLeft
    \/ PullRight

SpecAssoc == InitAssoc /\ [][NextAssoc]_vars

\* ------------------------------------------------------------ the claims
Pulls == 1..Len(log)
IsSome(item) == item.tag = "Some"
HeadOrNone(s) == IF s = <<>> THEN None ELSE Some(Head(s))

\* Numbers of earlier calls a closure can have seen within the bounds.
CallCounts == 0..(MaxPulls * MaxLen)

\* The closure returns the same outcome for an argument whenever it is called.
Stateless(ar) ==
    \A x \in Val, n \in CallCounts : Invoke([ar EXCEPT !.calls = n], x) = ar.tab[x]

\* C1: when f and g return finite sequences, the first pull returns the first
\* element of g(b1) ++ g(b2) ++ ... over the elements of f(a) in order, and
\* returns exhausted exactly when that concatenation is empty.
C1_HeadOnly ==
    LET c == Flattened(a, Fresh(f), Fresh(g)) IN
    (log # <<>> /\ c.ok) => log[1].item = HeadOrNone(c.seq)

\* f(a) has two elements, the first g(b) is empty, the second has two
\* elements, and the pull returned the head of the second.
C1_Witness ==
    /\ log # <<>>
    /\ log[1].fOut.ok /\ Len(log[1].fOut.seq) = 2
    /\ Len(log[1].gOuts) = 2
    /\ log[1].gOuts[1] = Ok(<<>>)
    /\ log[1].gOuts[2].ok /\ Len(log[1].gOuts[2].seq) = 2
    /\ log[1].gOuts[2].seq[1] # log[1].gOuts[2].seq[2]
    /\ log[1].item = Some(log[1].gOuts[2].seq[1])

NestedLoopEmpty ==
    \A n \in CallCounts :
        LET r == Invoke([f EXCEPT !.calls = n], a) IN
        /\ r.ok
        /\ \A j \in 1..Len(r.seq), m \in CallCounts :
               Invoke([g EXCEPT !.calls = m], r.seq[j]) = Ok(<<>>)

\* C3: if f(a) is empty, or g(b) is empty for every b of f(a), every pull
\* returns exhausted.
C3_EmptyPropagation ==
    NestedLoopEmpty => \A i \in Pulls : log[i].item = None

\* f(a) is not empty, every g(b) is, and two pulls have returned.
C3_Witness ==
    /\ NestedLoopEmpty
    /\ Len(log) >= 2
    /\ Len(log[2].fOut.seq) = 2
    /\ Len(log[2].gArgs) = 2
    /\ log[2].item = None

\* C4: before the first pull neither f nor g has been called, whatever has
\* been constructed.
C4_ConstructionPurity ==
    log = <<>> => (f.calls = 0 /\ g.calls = 0)

\* Composed and applied, never pulled, with an f that panics when called.
C4_Witness ==
    /\ pc = "applied"
    /\ log = <<>>
    /\ ~f.tab[a].ok
    /\ f.calls = 0

\* C6 (as stated): the elements returned by successive pulls, up to
\* exhaustion, are the elements of the nested loop, in order.
C6_DepthFirstOrder ==
    LET c == Flattened(a, Fresh(f), Fresh(g)) IN
    (Stateless(f) /\ Stateless(g) /\ c.ok) =>
        \A i \in Pulls :
            (\A j \in 1..(i - 1) : IsSome(log[j].item)) =>
                log[i].item = IF i <= Len(c.seq) THEN Some(c.seq[i]) ELSE None

\* C7 (as stated): a consumer pulling until exhausted receives at most one
\* element.
C7_AtMostOne ==
    LET c == Flattened(a, Fresh(f), Fresh(g)) IN
    c.ok => Cardinality({i \in Pulls : \A j \in 1..i : IsSome(log[j].item)}) <= 1

\* C8: every pull calls f exactly once, with the stored input, and works on
\* the sequence that call returned: after N pulls f has been called N times.
C8_Reinvocation ==
    /\ f.calls = Len(log)
    /\ \A i \in Pulls :
        /\ log[i].fArgs = <<a>>
        /\ log[i].fOut = Invoke([f EXCEPT !.calls = i - 1], a)

\* Three pulls of an f whose outcome changes from call to call.
C8_Witness ==
    /\ Len(log) = 3
    /\ f.calls = 3
    /\ log[1].fOut # log[2].fOut
    /\ log[2].fOut # log[3].fOut

\* The payloads of the arrow calls of pull e that panicked.
Failures(e) ==
    (IF e.fOut.ok THEN {} ELSE {e.fOut.err})
        \cup {e.gOuts[j].err : j \in {k \in 1..Len(e.gOuts) : ~e.gOuts[k].ok}}

\* C9: a pull fails exactly when an arrow call made during it fails, with that
\* call's payload; if f fails on a, every pull fails.
C9_PassThrough ==
    /\ \A i \in Pulls :
        /\ log[i].item.tag \in {"Some", "None", "Panic"}
        /\ log[i].item.tag = "Panic" <=> Failures(log[i]) # {}
        /\ log[i].item.tag = "Panic" => Failures(log[i]) = {log[i].item.err}
    /\ ~f.tab[a].ok => \A i \in Pulls : log[i].item = Panic(f.tab[a].err)

\* One pull has failed with g's panic after an empty g(b), another with f's.
C9_Witness ==
    \/ /\ Len(log) >= 2
       /\ log[2].item = Panic(GErr)
       /\ Len(log[2].gOuts) = 2
       /\ IsSome(log[1].item)
    \/ /\ Len(log) >= 2
       /\ log[2].item = Panic(FErr)
       /\ log[1].item = Panic(FErr)
       /\ g.calls = 0

\* C10: within one pull g is called on the elements of f(a) in order, once
\* each, up to and including the first whose g(b) is not empty; nothing after
\* it is requested from f(a), one element at most is requested from each
\* g(b), and g is not called when f(a) is empty.
C10_Lazy ==
    \A i \in Pulls :
        LET e == log[i]
            k == Len(e.gArgs)
        IN  /\ k <= Len(e.fOut.seq)
            /\ e.gArgs = SubSeq(e.fOut.seq, 1, k)
            /\ \A j \in 1..(k - 1) : e.gOuts[j] = Ok(<<>>)
            /\ (k < Len(e.fOut.seq)) => e.gOuts[k] # Ok(<<>>)
            /\ e.fReq = IF e.item = None THEN k + 1 ELSE k
            /\ e.gReq = Cardinality({j \in 1..k : e.gOuts[j].ok})
            /\ (e.fOut.seq = <<>>) => k = 0

\* f(a) has two elements, g(b1) is not empty and g would panic on b2: the
\* pull returned the head of g(b1) and never called g(b2).
C10_Witness ==
    /\ log # <<>>
    /\ Len(log[1].fOut.seq) = 2
    /\ log[1].fOut.seq[1] # log[1].fOut.seq[2]
    /\ ~g.tab[log[1].fOut.seq[2]].ok
    /\ log[1].gArgs = <<log[1].fOut.seq[1]>>
    /\ IsSome(log[1].item)
    /\ log[1].fReq = 1

\* f, g and h return a finite sequence for every argument.
AllFinite == \A x \in Val : f.tab[x].ok /\ g.tab[x].ok /\ h.tab[x].ok

\* C5 (as stated): for arrows with finite results, the first pull on
\* apply(compose(compose(f,g),h), a) and the first pull on
\* apply(compose(f,compose(g,h)), a) both return, and return the same result.
C5_Associativity ==
    (AllFinite /\ left # NotPulled /\ right # NotPulled) =>
        /\ left.tag \in {"Some", "None"}
        /\ right.tag \in {"Some", "None"}
        /\ left = right

====
